---- MODULE Spec2Model ----
(***************************************************************************)
(* Model of VolumeCalculation::Result and its merge operator               *)
(* (include/openmc/volume_calc.h).                                         *)
(*                                                                         *)
(* A double is modelled in exact arithmetic as a pair <<n, d>>: a          *)
(* normalised fraction n/d with d > 0, or one of the IEEE specials         *)
(* <<0,0>> (NaN), <<1,0>> (+inf), <<-1,0>> (-inf).                         *)
(*                                                                         *)
(* volume[1] and uncertainty[i] are standard deviations that the code      *)
(* only ever squares and then rebuilds with std::sqrt(x) / total_samples.  *)
(* The model stores their SQUARES: the stored value after a merge is       *)
(* x / total_samples^2, which is exactly (sqrt(x) / total_samples)^2.      *)
(* TLA+ sequences are 1-based: volume[1] is the C++ volume[0] (mean) and   *)
(* volume[2] is the square of the C++ volume[1] (standard deviation).      *)
(***************************************************************************)
EXTENDS Integers, Sequences, FiniteSets

\* ------------------------------------------------------------------ bounds
MaxSamples == 2
MaxNuclides == 1
MaxMerges == 2
\* size_t num_samples is capped: a merge is taken while its total fits
MaxTotalSamples == 6

\* std::array<double, 2> volume
VolumeSize == 2

Slots == {"A", "B"}

\* (mean, standard deviation) of the volume of a batch that hit the domain
HitVolumes == {<<1, 1>>, <<3, 2>>}
\* (nuclide index, atoms, uncertainty) of a freshly estimated batch
NuclideData == {<<5, 2, 1>>, <<7, 4, 3>>}
\* what a read past the end of a vector may deliver
Garbage == {<<0, 1>>, <<9, 1>>}

\* ------------------------------------------------- double, exact arithmetic
Abs(x) == IF x < 0 THEN -x ELSE x

Sign(x) == IF x < 0 THEN -1 ELSE IF x > 0 THEN 1 ELSE 0

RECURSIVE GCD(_, _)
GCD(a, b) == IF b = 0 THEN a ELSE GCD(b, a % b)

Norm(n, d) ==
  IF d = 0 THEN <<Sign(n), 0>>
  ELSE LET g == GCD(Abs(n), Abs(d))
           s == IF d < 0 THEN -1 ELSE 1
       IN  <<(s * n) \div g, (s * d) \div g>>

NaN == <<0, 0>>

IsNaN(a) == a = NaN

FromInt(k) == <<k, 1>>

Mul(a, b) == Norm(a[1] * b[1], a[2] * b[2])

Add(a, b) ==
  IF a[2] = 0 /\ b[2] = 0
  THEN (IF a = b THEN a ELSE NaN)
  ELSE Norm(a[1] * b[2] + b[1] * a[2], a[2] * b[2])

\* 1/b: 1/0 is +inf (the sign of zero is not tracked), 1/inf is 0, 1/NaN is NaN
Recip(b) ==
  IF b[1] = 0 /\ b[2] # 0 THEN <<1, 0>>
  ELSE Norm(Sign(b[1]) * b[2], Abs(b[1]))

Div(a, b) == Mul(a, Recip(b))

Sq(a) == Mul(a, a)

\* ------------------------------------------------------------------ Result
\* struct Result; volume[2] and uncertainty[i] hold squares (see above)
MakeResult(v, nuc, n) ==
  [volume      |-> <<FromInt(v[1]), Sq(FromInt(v[2]))>>,
   nuclides    |-> [i \in 1..Len(nuc) |-> nuc[i][1]],
   atoms       |-> [i \in 1..Len(nuc) |-> FromInt(nuc[i][2])],
   uncertainty |-> [i \in 1..Len(nuc) |-> Sq(FromInt(nuc[i][3]))],
   num_samples |-> n]

\* nuclide lists of a batch: at most MaxNuclides entries, no nuclide twice
NuclideLists ==
  UNION {{nuc \in [1..k -> NuclideData] :
            \A i, j \in 1..k : i # j => nuc[i][1] # nuc[j][1]} : k \in 0..MaxNuclides}

\* The Results merging starts from:
\*   a value-initialised Result (no samples, everything zero or empty),
\*   a batch without a hit (volume {0, 0}, no nuclides),
\*   a batch with hits.
BatchResults ==
  {MakeResult(<<0, 0>>, <<>>, n) : n \in 0..MaxSamples}
  \cup {MakeResult(v, nuc, n) : v \in HitVolumes, nuc \in NuclideLists, n \in 1..MaxSamples}

\* ------------------------------------------------------------- operator+=
\* a slip: the left operand's own count is dropped from the total
TotalSamplesOtherOnly(self, other) == other.num_samples

\* size_t total_samples = num_samples + other.num_samples;
TotalSamples(self, other) == self.num_samples + other.num_samples

\* (num_samples * x + other.num_samples * ox) / total_samples
Average(n, x, on, ox, total) ==
  Div(Add(Mul(FromInt(n), x), Mul(FromInt(on), ox)), FromInt(total))

\* square of  std::sqrt(num_samples * s*s + other.num_samples * os*os) / total_samples
\* where sq, osq are the stored squares s*s and os*os
Propagate(n, sq, on, osq, total) ==
  Div(Add(Mul(FromInt(n), sq), Mul(FromInt(on), osq)), FromInt(total * total))

\* for (int i = 0; i < volume.size(); i++) { volume[0] = ...; volume[1] = ...; }
\* The body does not use i, so it is executed volume.size() times on the
\* current value of volume. When other is *this, other.volume is that value too.
RECURSIVE VolumeLoop(_, _, _, _, _)
VolumeLoop(i, volume, self, other, aliased) ==
  IF i >= VolumeSize THEN volume
  ELSE LET ov    == IF aliased THEN volume ELSE other.volume
           total == TotalSamples(self, other)
           mean  == Average(self.num_samples, volume[1], other.num_samples, ov[1], total)
           sdsq  == Propagate(self.num_samples, volume[2], other.num_samples, ov[2], total)
       IN  VolumeLoop(i + 1, <<mean, sdsq>>, self, other, aliased)

\* indices i < atoms.size() at which other.atoms[i] / other.uncertainty[i]
\* is a read past the end of other's vector (undefined behaviour)
OutOfBounds(self, vec) == {i \in 1..Len(self.atoms) : i > Len(vec)}

\* a slip: the average is applied a second time to the already averaged entry
MergedAtomsTwice(self, other, ga, upto) ==
  [i \in 1..Len(self.atoms) |->
     IF i >= upto THEN self.atoms[i]
     ELSE LET oa   == IF i <= Len(other.atoms) THEN other.atoms[i] ELSE ga[i]
              once == Average(self.num_samples, self.atoms[i], other.num_samples, oa,
                              TotalSamples(self, other))
          IN  Average(self.num_samples, once, other.num_samples, oa,
                      TotalSamples(self, other))]

\* a slip: atoms is grown to other's length, entries past the old end copied
MergedAtomsResized(self, other, ga, upto) ==
  [i \in 1..(IF Len(other.atoms) > Len(self.atoms) THEN Len(other.atoms)
             ELSE Len(self.atoms)) |->
     IF i > Len(self.atoms) THEN other.atoms[i]
     ELSE IF i >= upto THEN self.atoms[i]
     ELSE Average(self.num_samples, self.atoms[i], other.num_samples,
                  IF i <= Len(other.atoms) THEN other.atoms[i] ELSE ga[i],
                  TotalSamples(self, other))]

\* atoms[i] = (num_samples * atoms[i] + other.num_samples * other.atoms[i]) / total_samples
\* for i < upto; ga[i] is what the read of other.atoms[i] past the end delivers
MergedAtoms(self, other, ga, upto) ==
  [i \in 1..Len(self.atoms) |->
     IF i >= upto THEN self.atoms[i]
     ELSE Average(self.num_samples, self.atoms[i], other.num_samples,
                  IF i <= Len(other.atoms) THEN other.atoms[i] ELSE ga[i],
                  TotalSamples(self, other))]

\* uncertainty[i] = std::sqrt(num_samples * uncertainty[i]^2
\*                   + other.num_samples * other.uncertainty[i]^2) / total_samples
MergedUncertainty(self, other, gu, upto) ==
  [i \in 1..Len(self.atoms) |->
     IF i >= upto THEN self.uncertainty[i]
     ELSE Propagate(self.num_samples, self.uncertainty[i], other.num_samples,
                    IF i <= Len(other.uncertainty) THEN other.uncertainty[i] ELSE Sq(gu[i]),
                    TotalSamples(self, other))]

\* Expects(volume.size() == other.volume.size()); Expects(atoms.size() == atoms.size());
Expects(self, other) ==
  /\ Len(self.volume) = Len(other.volume)
  /\ Len(self.atoms) = Len(self.atoms)

Min(S) == CHOOSE m \in S : \A k \in S : m <= k

\* Every outcome of  self += other : [pc, res] with res the value of *this.
\*   "running"    the operator returned *this
\*   "terminated" an Expects failed (std::terminate), *this untouched
\*   "crashed"    a read past the end of other's vectors faulted
PlusEq(self, other, aliased) ==
  IF ~Expects(self, other) THEN {[pc |-> "terminated", res |-> self]}
  ELSE
    LET volume == VolumeLoop(0, self.volume, self, other, aliased)
        oobA   == OutOfBounds(self, other.atoms)
        oobU   == OutOfBounds(self, other.uncertainty)
        size   == Len(self.atoms) + 1
    IN  {[pc  |-> "running",
          res |-> [self EXCEPT !.volume = volume,
                               !.atoms = MergedAtoms(self, other, ga, size),
                               !.uncertainty = MergedUncertainty(self, other, gu, size),
                               !.num_samples = TotalSamples(self, other)]] :
            ga \in [oobA -> Garbage], gu \in [oobU -> Garbage]}
        \cup
        (IF oobA \cup oobU = {} THEN {}
         ELSE {[pc  |-> "crashed",
                res |-> [self EXCEPT !.volume = volume,
                           !.atoms = MergedAtoms(self, other, <<>>, Min(oobA \cup oobU)),
                           !.uncertainty =
                              MergedUncertainty(self, other, <<>>, Min(oobA \cup oobU))]]})

\* ------------------------------------------------------------------- state
VARIABLES
  results,   \* the Result objects of one domain
  pc,        \* "running" | "terminated" | "crashed"
  batch,     \* history: the Results as first produced
  merged,    \* history: merged[s][b] = how often batch b was folded into s
  last,      \* history: the last call of operator+= and its operands before it
  nmerges    \* history: number of calls so far

vars == <<results, pc, batch, merged, last, nmerges>>

Init ==
  /\ results \in [Slots -> BatchResults]
  /\ pc = "running"
  /\ batch = results
  /\ merged = [s \in Slots |-> [b \in Slots |-> IF b = s THEN 1 ELSE 0]]
  /\ last = [op |-> "none", lhs |-> "A", rhs |-> "A",
             self |-> results["A"], other |-> results["A"]]
  /\ nmerges = 0

\* results[x] += results[y]
Merge(x, y) ==
  /\ pc = "running"
  /\ nmerges < MaxMerges
  /\ TotalSamples(results[x], results[y]) <= MaxTotalSamples
  /\ \E o \in PlusEq(results[x], results[y], x = y) :
       /\ results' = [results EXCEPT ![x] = o.res]
       /\ pc' = o.pc
  /\ merged' = [merged EXCEPT ![x] = [b \in Slots |-> merged[x][b] + merged[y][b]]]
  /\ last' = [op |-> "merge", lhs |-> x, rhs |-> y,
              self |-> results[x], other |-> results[y]]
  /\ nmerges' = nmerges + 1
  /\ UNCHANGED batch

Next == \E x, y \in Slots : Merge(x, y)

Spec == Init /\ [][Next]_vars

\* ------------------------------------------------------------ vocabulary
Merged == last.op = "merge"

\* the last call of operator+= returned
Returned == Merged /\ pc = "running"

\* the last call had two different objects as operands
Distinct == last.lhs # last.rhs

PreSelf == last.self

PreOther == last.other

PostSelf == results[last.lhs]

PostOther == results[last.rhs]

nA == PreSelf.num_samples

nB == PreOther.num_samples

SameShape(a, b) ==
  /\ Len(a.nuclides) = Len(b.nuclides)
  /\ Len(a.atoms) = Len(b.atoms)
  /\ Len(a.uncertainty) = Len(b.uncertainty)

\* n_A * x + n_B * y
Weighted(x, y) == Add(Mul(FromInt(nA), x), Mul(FromInt(nB), y))

RECURSIVE SumOver(_, _)
SumOver(S, f) ==
  IF S = {} THEN <<0, 1>>
  ELSE LET b == CHOOSE c \in S : TRUE IN Add(f[b], SumOver(S \ {b}, f))

\* number of samples of all batches folded into s
BagSamples(s) ==
  SumOver(Slots, [b \in Slots |-> FromInt(merged[s][b] * batch[b].num_samples)])

\* sum of n_k * mean_k over all batches folded into s
BagWeightedMeans(s) ==
  SumOver(Slots, [b \in Slots |->
     Mul(FromInt(merged[s][b] * batch[b].num_samples), batch[b].volume[1])])

\* ------------------------------------------------------------------ claims

\* C1: after A += B with n_A + n_B > 0 the volume mean is
\* (n_A*mean_A + n_B*mean_B) / (n_A+n_B), the weighted average applied once.
VolumeMeanWeightedOnce ==
  (Returned /\ Distinct /\ nA + nB > 0) =>
     PostSelf.volume[1] =
        Div(Weighted(PreSelf.volume[1], PreOther.volume[1]), FromInt(nA + nB))

\* C2: after A += B with n_A + n_B > 0 the volume standard deviation satisfies
\* ((n_A+n_B) * sd)^2 = n_A*sd_A^2 + n_B*sd_B^2.
VolumeSdQuadrature ==
  (Returned /\ Distinct /\ nA + nB > 0) =>
     Mul(Sq(FromInt(nA + nB)), PostSelf.volume[2]) =
        Weighted(PreSelf.volume[2], PreOther.volume[2])

\* C3: after A += B on identically shaped operands with n_A + n_B > 0, every
\* index i has (n_A+n_B) * atoms[i] = n_A*atoms_A[i] + n_B*atoms_B[i] and
\* ((n_A+n_B) * uncertainty[i])^2 = n_A*unc_A[i]^2 + n_B*unc_B[i]^2.
PerNuclideWeightedOnce ==
  (Returned /\ Distinct /\ SameShape(PreSelf, PreOther) /\ nA + nB > 0) =>
     /\ Len(PostSelf.atoms) = Len(PreSelf.atoms)
     /\ Len(PostSelf.uncertainty) = Len(PreSelf.uncertainty)
     /\ \A i \in 1..Len(PreSelf.atoms) :
          /\ Mul(FromInt(nA + nB), PostSelf.atoms[i]) =
                Weighted(PreSelf.atoms[i], PreOther.atoms[i])
          /\ Mul(Sq(FromInt(nA + nB)), PostSelf.uncertainty[i]) =
                Weighted(PreSelf.uncertainty[i], PreOther.uncertainty[i])

PerNuclideWitness ==
  /\ Returned /\ Distinct /\ SameShape(PreSelf, PreOther)
  /\ nA > 0 /\ nB > 0 /\ nA # nB
  /\ Len(PreSelf.atoms) >= 1
  /\ PreSelf.atoms[1] # PreOther.atoms[1]
  /\ PostSelf.atoms[1] # PreSelf.atoms[1]

\* C4: folding batches with positive sample counts in any order or tree gives
\* a volume mean equal to sum_k(n_k*mean_k) / sum_k(n_k).
FoldIsWeightedMean ==
  (pc = "running" /\ \A b \in Slots : batch[b].num_samples > 0) =>
     \A s \in Slots :
        Mul(BagSamples(s), results[s].volume[1]) = BagWeightedMeans(s)

\* C5: for A, B with positive sample counts, A += B and B += A give the same
\* volume mean and the same per-nuclide atoms means.
MergeOrderInsensitive ==
  (Returned /\ Distinct /\ SameShape(PreSelf, PreOther) /\ nA > 0 /\ nB > 0) =>
     \A o \in PlusEq(PreOther, PreSelf, FALSE) :
        /\ o.res.volume[1] = PostSelf.volume[1]
        /\ o.res.atoms = PostSelf.atoms

\* C6: after A += B, A.num_samples = n_A + n_B and B.num_samples is unchanged;
\* an accumulated Result counts the samples of all batches merged into it.
NumSamplesIsSum ==
  /\ Returned => PostSelf.num_samples = nA + nB
  /\ (Returned /\ Distinct) => PostOther.num_samples = nB
  /\ pc = "running" =>
       \A s \in Slots : FromInt(results[s].num_samples) = BagSamples(s)

NumSamplesWitness ==
  /\ Returned /\ Distinct /\ nmerges >= 2
  /\ nA > 0 /\ nB > 0
  /\ merged[last.lhs][last.lhs] + merged[last.lhs][last.rhs] >= 3

\* C7: a merge of operands whose nuclide vectors differ in shape ends in a
\* fatal precondition failure with the left operand unmodified.
MismatchRejected ==
  (Merged /\ ~SameShape(PreSelf, PreOther)) =>
     (pc = "terminated" /\ PostSelf = PreSelf)

\* C8: a merge with n_A + n_B = 0 is rejected or special-cased; no quotient by
\* a zero total_samples ends up in volume, atoms or uncertainty.
ZeroTotalSpecialCased ==
  (Merged /\ nA + nB = 0 /\ ~IsNaN(PreSelf.volume[1]) /\ ~IsNaN(PreSelf.volume[2])) =>
     \/ pc = "terminated"
     \/ (~IsNaN(PostSelf.volume[1]) /\ ~IsNaN(PostSelf.volume[2]))

\* C9: merging a Result with one of identical contents and sample count leaves
\* the volume mean, every atoms mean and the nuclides sequence as they were.
IdenticalMergeKeepsMean ==
  (Returned /\ PreSelf = PreOther) =>
     /\ PostSelf.volume[1] = PreSelf.volume[1]
     /\ PostSelf.atoms = PreSelf.atoms
     /\ PostSelf.nuclides = PreSelf.nuclides

\* C10: every Result keeps nuclides, atoms and uncertainty of one length; a
\* merge changes neither the lengths nor the nuclides of the left operand and
\* leaves the right operand as it was.
ShapePreserved ==
  /\ \A s \in Slots :
        /\ Len(results[s].nuclides) = Len(results[s].atoms)
        /\ Len(results[s].atoms) = Len(results[s].uncertainty)
  /\ Merged =>
        /\ Len(PostSelf.atoms) = Len(PreSelf.atoms)
        /\ Len(PostSelf.uncertainty) = Len(PreSelf.uncertainty)
        /\ PostSelf.nuclides = PreSelf.nuclides
        /\ Distinct => PostOther = PreOther

ShapeWitness ==
  /\ Returned /\ Distinct /\ nmerges >= 2
  /\ Len(PreOther.atoms) > Len(PreSelf.atoms)
  /\ nA > 0 /\ nB > 0

====
